---- MODULE Spec2Model ----
(***************************************************************************)
(* Model of src/mcp_music_analysis/server.py: the six MCP tools and the    *)
(* prompt of the "Music Analysis with librosa" server.                     *)
(*                                                                         *)
(* Strings are sequences of one-character strings, so that endswith and    *)
(* concatenation are computed as Python computes them.  Times are counted  *)
(* in samples at librosa's default rate (1 s = SampleRate ticks); where    *)
(* the code's binary floating point differs from exact arithmetic, in the  *)
(* remainder t % interval, the rounding of the floats is computed.         *)
(***************************************************************************)
EXTENDS Integers, Sequences, FiniteSets, TLC

VARIABLES
    fs,         \* the file system: the content (a byte sequence) of each existing path
    before,     \* the file system as the last tool call found it
    last,       \* the last tool call served: its arguments and its outcome
    procs,      \* concurrent download_from_url invocations: position, response, file offset
    lastOpener, \* history: the invocation that opened (truncated) the file last, 0 if none
    lastWriter, \* history: the invocation that wrote to the file last, 0 if none
    foreign     \* history: another invocation wrote after lastOpener's truncation

vars == <<fs, before, last, procs, lastOpener, lastWriter, foreign>>

----------------------------------------------------------------------------
(* Bounds of the model *)

MaxBody == 2          \* longest response body / file, in bytes
MaxChunk == 2         \* longest single write(2) the OS performs

----------------------------------------------------------------------------
(* Strings *)

EndsWith(s, suffix) ==
    /\ Len(suffix) <= Len(s)
    /\ SubSeq(s, Len(s) - Len(suffix) + 1, Len(s)) = suffix

S_mp3 == <<".", "m", "p", "3">>
S_wav == <<".", "w", "a", "v">>
S_txt == <<".", "t", "x", "t">>
S_MP3 == <<".", "M", "P", "3">>
S_mp4 == <<".", "m", "p", "4">>

\* tempfile.gettempdir()
TempDir == <<"/", "t", "m", "p">>

\* os.path.join(dir, name)
PathJoin(dir, name) == dir \o <<"/">> \o name

DownloadedName ==
    <<"d", "o", "w", "n", "l", "o", "a", "d", "e", "d", "_", "f", "i", "l", "e">>

\* the fixed path download_from_url writes
DownloadedFile == PathJoin(TempDir, DownloadedName)

----------------------------------------------------------------------------
(* Files *)

\* the file system f with the file at path holding content (created if missing)
Store(f, path, content) ==
    [p \in DOMAIN f \cup {path} |-> IF p = path THEN content ELSE f[p]]

\* what open(path, "wb") starts from: the old content, nothing for a new file
OldContent(f, path) == IF path \in DOMAIN f THEN f[path] ELSE <<>>

Bytes == {1, 2}

RECURSIVE SeqsUpTo(_, _)
SeqsUpTo(S, n) ==
    IF n = 0 THEN {<<>>}
    ELSE LET shorter == SeqsUpTo(S, n - 1)
         IN  shorter \cup {Append(s, b) : s \in {t \in shorter : Len(t) = n - 1}, b \in S}

\* the response bodies the model serves
Bodies == SeqsUpTo(Bytes, MaxBody)

\* a bug: the file is opened without truncation ("r+b")
OpenKeep(content) == content

\* open(file_path, "wb"): the file is created or truncated to length zero
OpenTruncate(content) == <<>>

\* a bug: the file is opened for appending, every write goes to its end
WriteAppend(content, pos, data) == content \o data

\* write(2) of data at file offset pos: bytes before pos are kept (a gap past the
\* end of the file reads as zeros), bytes under data are replaced, bytes after stay
WriteAt(content, pos, data) ==
    LET n == IF Len(content) > pos + Len(data) THEN Len(content)
             ELSE pos + Len(data)
    IN  [i \in 1..n |->
            IF i > pos /\ i <= pos + Len(data) THEN data[i - pos]
            ELSE IF i <= Len(content) THEN content[i]
            ELSE 0]

----------------------------------------------------------------------------
(* Inputs of the tools *)

UrlBase == <<"h", "t", "t", "p", ":", "/", "/", "x", "/", "y">>

UrlQuery == <<"?", "x", "=", "1">>

UrlQueryMp3 == <<"?", "f", "=">> \o S_mp3

UrlFragmentWav == <<"#", "t">> \o S_wav

\* the URLs callers pass to download_from_url
Urls ==
    { UrlBase \o S_mp3,
      UrlBase \o S_wav,
      UrlBase \o S_txt,
      UrlBase \o S_MP3,
      UrlBase \o S_wav \o UrlQuery,
      UrlBase \o S_txt \o UrlQueryMp3,
      UrlBase \o S_txt \o UrlFragmentWav }

\* the HTTP statuses the server answers with
Statuses == {200, 204, 404}

\* the bodies that come with a status; the handler never reads the body of a
\* response whose status is not 200
ResponseBodies(status) == IF status = 200 THEN Bodies ELSE {<<>>}

YtPrefix == <<"h", "t", "t", "p", "s", ":", "/", "/", "y", "t", "/">>

VideoIds == {<<"a", "1">>, <<"b", "2">>}

\* the URLs callers pass to download_from_youtube
YtUrls == {YtPrefix \o v : v \in VideoIds}

\* the audio-only stream the platform serves
YtStreams == {<<2, 1>>}

\* a file the caller already has
LocalFile == <<"/", "a">> \o S_wav

LocalContents == {<<2, 1>>}

\* YouTube(url).video_id: the identifier the library extracts from the URL
VideoId(url) == SubSeq(url, Len(YtPrefix) + 1, Len(url))

\* a bug: the stream is saved under the fixed download name
YtPathFixed(url) == PathJoin(TempDir, DownloadedName)

\* os.path.join(output_path, filename) with filename = video_id + ".mp4"
YtPath(url) == PathJoin(TempDir, VideoId(url) \o S_mp4)

Paths == {DownloadedFile, LocalFile} \cup {YtPath(u) : u \in YtUrls}

----------------------------------------------------------------------------
(* Outcomes of a call *)

Return(v) == [kind |-> "return", value |-> v]

Raise(class, prefix, url, suffix) ==
    [kind |-> "raise", class |-> class,
     msg |-> [prefix |-> prefix, url |-> url, suffix |-> suffix]]

\* the call record kept in `last`: the tool, its arguments, what it answered
\* and the HTTP GETs it issued
Call(op, args, outcome, gets) ==
    [op |-> op, args |-> args, outcome |-> outcome, gets |-> gets]

----------------------------------------------------------------------------
(* download_from_url *)

\* a bug: the extension is looked for anywhere in the URL
ContainsAudioExtension(url) ==
    \E i \in 1..Len(url) : \E ext \in {S_mp3, S_wav} :
        /\ i + Len(ext) - 1 <= Len(url)
        /\ SubSeq(url, i, i + Len(ext) - 1) = ext

\* a bug: the extension is compared without regard to case
AudioUrlAnyCase(url) ==
    EndsWith(url, S_mp3) \/ EndsWith(url, S_wav) \/ EndsWith(url, S_MP3)

\* the check of line 111, negated: the URL is taken for an audio file
ValidAudioUrl(url) == EndsWith(url, S_mp3) \/ EndsWith(url, S_wav)

\* raise ValueError(f"URL: {url} is not a valid audio file")
ValidationFailure(url) ==
    Raise("ValueError", "URL: ", url, " is not a valid audio file")

\* raise ValueError(f"Failed to download file from URL: {url}")
FetchFailure(url) ==
    Raise("ValueError", "Failed to download file from URL: ", url, "")

\* with open(file_path, "wb") as file: file.write(response.content)
WriteWhole(content, data) == WriteAt(OpenTruncate(content), 0, data)

\* a bug: every 2xx status counts as success
IsSuccess2xx(status) == status \div 100 = 2

\* response.status_code == 200
IsSuccess(status) == status = 200

\* one whole call of download_from_url(url); status and body are the answer
\* requests.get(url) would get
DownloadFromUrl(url, status, body) ==
    /\ IF ~ValidAudioUrl(url)
       THEN /\ last' = Call("download_from_url", [url |-> url],
                            ValidationFailure(url), <<>>)
            /\ fs' = fs
       ELSE IF IsSuccess(status)
       THEN /\ fs' = Store(fs, DownloadedFile,
                             WriteWhole(OldContent(fs, DownloadedFile), body))
            /\ last' = Call("download_from_url",
                            [url |-> url, status |-> status, body |-> body],
                            Return(DownloadedFile), <<url>>)
       ELSE /\ fs' = fs
            /\ last' = Call("download_from_url",
                            [url |-> url, status |-> status, body |-> <<>>],
                            FetchFailure(url), <<url>>)
    /\ before' = fs
    /\ UNCHANGED <<procs, lastOpener, lastWriter, foreign>>

----------------------------------------------------------------------------
(* download_from_youtube *)

\* one whole call of download_from_youtube(url); resolved tells whether the
\* platform resolved the video and served the stream
DownloadFromYoutube(url, resolved, stream) ==
    /\ IF resolved
       THEN /\ fs' = Store(fs, YtPath(url), stream)
            /\ last' = Call("download_from_youtube", [url |-> url],
                            Return(YtPath(url)), <<>>)
       ELSE /\ fs' = fs
            /\ last' = Call("download_from_youtube", [url |-> url],
                            Raise("UpstreamError", "", url, ""), <<>>)
    /\ before' = fs
    /\ UNCHANGED <<procs, lastOpener, lastWriter, foreign>>

----------------------------------------------------------------------------
(* librosa: loading, frames and times *)

\* librosa.load's default sampling rate: one second is SampleRate ticks
SampleRate == 22050

\* the default hop length of beat_track, chroma_cqt and frames_to_time
HopLength == 512

\* the decoded length, in samples, of one byte of a model file
SamplesPerByte == 800

\* duration=None: load to the end of the file
None == -1

Offsets == {0, 512, 900}

Durations == {None, 400, 1100}

Intervals == {-600, 0, 512, 1000}

\* most beats beat_track answers in the model
MaxBeats == 2

Tempos == {60, 120}

Min(a, b) == IF a < b THEN a ELSE b

Abs(x) == IF x < 0 THEN -x ELSE x

\* whether librosa.load can decode the file at path: it exists and holds audio
Loadable(path) == path \in DOMAIN fs /\ Len(fs[path]) > 0

\* the number of samples of the whole file at the default rate
TotalSamples(path) == Len(fs[path]) * SamplesPerByte

\* len(y) for y, sr = librosa.load(path, offset=offset, duration=duration)
LoadedSamples(path, offset, duration) ==
    LET rest == TotalSamples(path) - offset
    IN  IF rest <= 0 THEN 0
        ELSE IF duration = None THEN rest
        ELSE Min(rest, duration)

\* the number of analysis frames of a signal of n samples (centered frames)
NFrames(n) == 1 + n \div HopLength

\* a bug: a hop length other than the one the frames were computed with
FramesToTimeDoubleHop(frame) == frame * 2 * HopLength

\* librosa.frames_to_time(frame), in ticks
FramesToTime(frame) == frame * HopLength

\* the library cannot load or analyse the segment
LoadError(path) == Raise("LoadError", "", path, "")

RECURSIVE SortedSeq(_)
\* the elements of a finite set of integers, ascending
SortedSeq(S) ==
    IF S = {} THEN <<>>
    ELSE LET m == CHOOSE x \in S : \A y \in S : x <= y
         IN  <<m>> \o SortedSeq(S \ {m})

----------------------------------------------------------------------------
(* get_tempo, get_beats, get_duration, analyze_audio *)

\* one whole call of get_tempo; tempo is beat_track's estimate
GetTempo(path, offset, duration, tempo) ==
    /\ last' = Call("get_tempo",
                    [path |-> path, offset |-> offset, duration |-> duration],
                    IF Loadable(path) /\ LoadedSamples(path, offset, duration) > 0
                    THEN Return(tempo) ELSE LoadError(path),
                    <<>>)
    /\ before' = fs
    /\ UNCHANGED <<fs, procs, lastOpener, lastWriter, foreign>>

\* the beat frames beat_track may answer for a signal of n samples: ascending
\* frame indices inside the signal
BeatFrames(n) ==
    {SortedSeq(B) : B \in {X \in SUBSET (0 .. NFrames(n) - 1) : Cardinality(X) <= MaxBeats}}

\* times = librosa.frames_to_time(frames); times.tolist()
BeatTimes(frames) == [j \in 1..Len(frames) |-> FramesToTime(frames[j])]

\* what beat_track may answer for the segment a call loads; nothing is asked of
\* the library when the segment cannot be loaded
TrackedBeats(path, offset, duration) ==
    IF Loadable(path) /\ LoadedSamples(path, offset, duration) > 0
    THEN BeatFrames(LoadedSamples(path, offset, duration))
    ELSE {<<>>}

\* one whole call of get_beats; frames is what beat_track answers, and the
\* code converts it to times whatever it is
GetBeats(path, offset, duration, frames) ==
    /\ last' = Call("get_beats",
                    [path |-> path, offset |-> offset, duration |-> duration],
                    IF Loadable(path) /\ LoadedSamples(path, offset, duration) > 0
                    THEN Return(BeatTimes(frames)) ELSE LoadError(path),
                    <<>>)
    /\ before' = fs
    /\ UNCHANGED <<fs, procs, lastOpener, lastWriter, foreign>>

\* one whole call of get_duration: librosa.get_duration(y=y), in ticks
GetDuration(path) ==
    /\ last' = Call("get_duration", [path |-> path],
                    IF Loadable(path) THEN Return(TotalSamples(path))
                    ELSE LoadError(path),
                    <<>>)
    /\ before' = fs
    /\ UNCHANGED <<fs, procs, lastOpener, lastWriter, foreign>>

\* the prompt: a fixed text
AnalyzeAudio ==
    /\ last' = Call("analyze_audio", [path |-> <<>>], Return("usage"), <<>>)
    /\ before' = fs
    /\ UNCHANGED <<fs, procs, lastOpener, lastWriter, foreign>>

----------------------------------------------------------------------------
(* get_chroma *)

notes == <<"C", "C#", "D", "D#", "E", "F", "F#", "G", "G#", "A", "A#", "B">>

\* Times are binary64 floats in the code: the frame time is the float nearest
\* t / 22050 (frames_to_time divides frame * hop_length by float(sr)), and an
\* interval of m ticks is the float nearest m / 22050. The model keeps the tick
\* counts t and m and computes, in integers, how the two roundings compare.

\* the fraction bits of a binary64 float
FractionBits == 52

RECURSIVE Pow2(_)
\* 2^d for d >= 0
Pow2(d) == IF d = 0 THEN 1 ELSE 2 * Pow2(d - 1)

RECURSIVE Pow2Mod(_)
\* 2^s modulo SampleRate, for s >= 0, by squaring
Pow2Mod(s) ==
    IF s = 0 THEN 1
    ELSE LET h == Pow2Mod(s \div 2)
         IN  (((h * h) % SampleRate) * (IF s % 2 = 1 THEN 2 ELSE 1)) % SampleRate

RECURSIVE BinaryExponent(_)
\* the binary exponent of n / SampleRate, for n > 0: the e with
\* 2^e <= n / SampleRate < 2^(e + 1)
BinaryExponent(n) ==
    IF n >= 2 * SampleRate THEN BinaryExponent(n \div 2) + 1
    ELSE IF n < SampleRate THEN BinaryExponent(2 * n) - 1
    ELSE 0

\* the rounding error of the float nearest n / SampleRate, for n > 0, as the
\* integer rho with  float = n / SampleRate + rho / (SampleRate * 2^s),
\* s = FractionBits - BinaryExponent(n): round to nearest
RoundingError(n) ==
    LET s  == FractionBits - BinaryExponent(n)
        r0 == ((n % SampleRate) * Pow2Mod(s)) % SampleRate
    IN  IF 2 * r0 < SampleRate THEN -r0 ELSE SampleRate - r0

\* for t an exact multiple q * m of m > 0, t > 0: the sign of
\* float(t / 22050) - q * float(m / 22050), in units of the interval's last place
FloatExcess(t, m) ==
    RoundingError(t) * Pow2(BinaryExponent(t) - BinaryExponent(m))
        - (t \div m) * RoundingError(m)

\* t % m on the floats of t >= 0 and m # 0 ticks, to the nearest tick (what is
\* left out is below 2^-30 tick). The remainder is computed exactly from the
\* two rounded floats and takes the sign of m: when t is a multiple of m and
\* the float of t falls below that multiple of the float of m, the remainder is
\* just under the interval instead of 0.
PyMod(t, m) ==
    LET i == Abs(m)
        r == t % i
        x == IF r = 0 /\ t > 0 THEN FloatExcess(t, i) ELSE 0
    IN  IF m > 0
        THEN (IF r > 0 THEN r ELSE IF x < 0 THEN i ELSE 0)
        ELSE (IF r > 0 THEN r - i ELSE IF x > 0 THEN -i ELSE 0)

\* a bug: only frames whose remainder is 0 are kept, the tolerance is lost
ExactInterval(t, interval) ==
    IF interval = 0 THEN FALSE ELSE PyMod(t, interval) = 0

\* abs(t % interval) < 1e-2; t % 0 is NaN, and every comparison with NaN is false
NearInterval(t, interval) ==
    IF interval = 0 THEN FALSE
    ELSE 100 * Abs(PyMod(t, interval)) < SampleRate

\* a bug fixed: the frame time is taken from the start of the file
FrameKeptAbsolute(t, offset, interval) ==
    t + offset >= offset /\ NearInterval(t, interval)

\* the condition of line 89
FrameKept(t, offset, interval) == t >= offset /\ NearInterval(t, interval)

\* chroma_cq[i][k]: the energy of pitch class i in frame k, a value the library
\* computes from the signal
ChromaCq(path, offset, i, k) ==
    LET at == (offset + FramesToTime(k)) \div SamplesPerByte + 1
        b  == IF at <= Len(fs[path]) THEN fs[path][at] ELSE 0
    IN  (b * i + k) % 7

RECURSIVE InnerLoop(_, _, _, _, _, _)
\* the loop of lines 88 to 90 for pitch class i, from frame k on
InnerLoop(path, offset, interval, nframes, i, k) ==
    IF k >= nframes THEN <<>>
    ELSE (IF FrameKept(FramesToTime(k), offset, interval)
          THEN << [note |-> notes[i], time |-> FramesToTime(k),
                   amplitude |-> ChromaCq(path, offset, i, k)] >>
          ELSE <<>>)
         \o InnerLoop(path, offset, interval, nframes, i, k + 1)

RECURSIVE OuterLoop(_, _, _, _, _)
\* the loop of lines 86 to 90, from pitch class i on
OuterLoop(path, offset, interval, nframes, i) ==
    IF i > Len(notes) THEN <<>>
    ELSE InnerLoop(path, offset, interval, nframes, i, 0)
         \o OuterLoop(path, offset, interval, nframes, i + 1)

RECURSIVE TimeMajor(_, _, _, _, _)
\* the loops exchanged: frames outside, pitch classes inside
TimeMajor(path, offset, interval, nframes, k) ==
    IF k >= nframes THEN <<>>
    ELSE (IF FrameKept(FramesToTime(k), offset, interval)
          THEN [i \in 1..Len(notes) |->
                   [note |-> notes[i], time |-> FramesToTime(k),
                    amplitude |-> ChromaCq(path, offset, i, k)]]
          ELSE <<>>)
         \o TimeMajor(path, offset, interval, nframes, k + 1)

\* a bug: the list is built frame by frame
ChromaListTimeMajor(path, offset, duration, interval) ==
    TimeMajor(path, offset, interval,
              NFrames(LoadedSamples(path, offset, duration)), 0)

\* data_list for a loaded segment
ChromaList(path, offset, duration, interval) ==
    OuterLoop(path, offset, interval,
              NFrames(LoadedSamples(path, offset, duration)), 1)

\* one whole call of get_chroma
GetChroma(path, offset, duration, interval) ==
    /\ last' = Call("get_chroma",
                    [path |-> path, offset |-> offset, duration |-> duration,
                     interval |-> interval],
                    IF Loadable(path) /\ LoadedSamples(path, offset, duration) > 0
                    THEN Return(ChromaList(path, offset, duration, interval))
                    ELSE LoadError(path),
                    <<>>)
    /\ before' = fs
    /\ UNCHANGED <<fs, procs, lastOpener, lastWriter, foreign>>

----------------------------------------------------------------------------
(* The server, one call after the other *)

Idle == Call("none", [path |-> <<>>], Return("none"), <<>>)

NoProcs == <<>>

Init ==
    /\ \E c \in LocalContents : fs = Store(<<>>, LocalFile, c)
    /\ before = fs
    /\ last = Idle
    /\ procs = NoProcs
    /\ lastOpener = 0
    /\ lastWriter = 0
    /\ foreign = FALSE

Next ==
    \/ \E url \in Urls, status \in Statuses :
          \E body \in ResponseBodies(status) : DownloadFromUrl(url, status, body)
    \/ \E url \in YtUrls, resolved \in BOOLEAN, stream \in YtStreams :
          DownloadFromYoutube(url, resolved, stream)
    \/ \E path \in Paths, offset \in {0, 512}, tempo \in Tempos :
          GetTempo(path, offset, None, tempo)
    \/ \E path \in Paths, offset \in {0, 512} :
          \E frames \in TrackedBeats(path, offset, None) :
              GetBeats(path, offset, None, frames)
    \/ \E path \in Paths, offset \in {0, 512}, interval \in {1000} :
          GetChroma(path, offset, None, interval)
    \/ \E path \in Paths : GetDuration(path)
    \/ AnalyzeAudio

Spec == Init /\ [][Next]_vars

----------------------------------------------------------------------------
(* The analysis tools on a file that does not change *)

AnalysisPaths == {LocalFile, DownloadedFile}

InitAnalysis ==
    /\ \E c \in Bodies : fs = Store(<<>>, LocalFile, c)
    /\ before = fs
    /\ last = Idle
    /\ procs = NoProcs
    /\ lastOpener = 0
    /\ lastWriter = 0
    /\ foreign = FALSE

NextAnalysis ==
    \/ \E path \in AnalysisPaths, offset \in Offsets, duration \in Durations,
          tempo \in Tempos :
          GetTempo(path, offset, duration, tempo)
    \/ \E path \in AnalysisPaths, offset \in Offsets, duration \in Durations :
          \E frames \in TrackedBeats(path, offset, duration) :
              GetBeats(path, offset, duration, frames)
    \/ \E path \in AnalysisPaths, offset \in Offsets, duration \in Durations,
          interval \in Intervals :
          GetChroma(path, offset, duration, interval)
    \/ \E path \in AnalysisPaths : GetDuration(path)

SpecAnalysis == InitAnalysis /\ [][NextAnalysis]_vars

----------------------------------------------------------------------------
(* Concurrent invocations of download_from_url: each runs lines 114 to 119  *)
(* step by step, with its own file object and file offset, and no lock      *)

Procs == {1, 2, 3}

\* the body invocation p gets: its own byte, repeated
ProcBodies(p) == {[i \in 1..n |-> p] : n \in 0..MaxBody}

\* what an earlier download left at the path
StaleContent == <<9, 9, 9>>

NotStarted == [pc |-> "start", body |-> <<>>, pos |-> 0, ret |-> <<>>]

AllDone == \A p \in Procs : procs[p].pc = "done"

\* response = requests.get(url), with status 200
CGet(p, body) ==
    /\ procs[p].pc = "start"
    /\ procs' = [procs EXCEPT ![p] = [@ EXCEPT !.pc = "got", !.body = body]]
    /\ UNCHANGED <<fs, before, last, lastOpener, lastWriter, foreign>>

\* open(file_path, "wb")
COpen(p) ==
    /\ procs[p].pc = "got"
    /\ fs' = Store(fs, DownloadedFile, OpenTruncate(OldContent(fs, DownloadedFile)))
    /\ procs' = [procs EXCEPT ![p] = [@ EXCEPT !.pc = "open", !.pos = 0]]
    /\ lastOpener' = p
    /\ foreign' = FALSE
    /\ UNCHANGED <<before, last, lastWriter>>

\* one write(2) of file.write(response.content): the next k bytes of the body
\* go to the file at this invocation's own offset; an empty body is written by
\* a call that writes nothing
CWrite(p, k) ==
    /\ procs[p].pc = "open"
    /\ k >= 1 \/ Len(procs[p].body) = 0
    /\ k <= MaxChunk
    /\ procs[p].pos + k <= Len(procs[p].body)
    /\ fs' = Store(fs, DownloadedFile,
                   WriteAt(OldContent(fs, DownloadedFile), procs[p].pos,
                           SubSeq(procs[p].body, procs[p].pos + 1, procs[p].pos + k)))
    /\ procs' = [procs EXCEPT ![p] =
                    [@ EXCEPT !.pos = @ + k,
                              !.pc = IF procs[p].pos + k = Len(procs[p].body)
                                     THEN "written" ELSE "open"]]
    /\ lastWriter' = p
    /\ foreign' = (foreign \/ p # lastOpener)
    /\ UNCHANGED <<before, last, lastOpener>>

\* the with block ends once the whole body is written; return file_path
CReturn(p) ==
    /\ procs[p].pc = "written"
    /\ procs' = [procs EXCEPT ![p] = [@ EXCEPT !.pc = "done", !.ret = DownloadedFile]]
    /\ UNCHANGED <<fs, before, last, lastOpener, lastWriter, foreign>>

InitConc ==
    /\ fs \in {<<>>, Store(<<>>, DownloadedFile, StaleContent)}
    /\ before = fs
    /\ last = Idle
    /\ procs = [p \in Procs |-> NotStarted]
    /\ lastOpener = 0
    /\ lastWriter = 0
    /\ foreign = FALSE

NextConc ==
    \E p \in Procs :
        \/ \E body \in ProcBodies(p) : CGet(p, body)
        \/ COpen(p)
        \/ \E k \in 0..MaxChunk : CWrite(p, k)
        \/ CReturn(p)

SpecConc == InitConc /\ [][NextConc]_vars

----------------------------------------------------------------------------
(* Properties of the download tools, checked under Spec *)

IsDownload == last.op = "download_from_url"

Returned == last.outcome.kind = "return"

Raised == last.outcome.kind = "raise"

\* the file at path p is as the last call found it
Untouched(p) ==
    /\ p \in DOMAIN fs <=> p \in DOMAIN before
    /\ p \in DOMAIN fs => fs[p] = before[p]

FsUntouched == DOMAIN fs = DOMAIN before /\ \A p \in DOMAIN fs : Untouched(p)

\* the last four characters of the URL string are .mp3 or .wav
LiteralAudioSuffix(url) ==
    /\ Len(url) >= 4
    /\ <<url[Len(url) - 3], url[Len(url) - 2], url[Len(url) - 1], url[Len(url)]>>
           \in {S_mp3, S_wav}

RECURSIVE UrlPath(_)
\* the path part of a URL: what comes before the query string and the fragment
UrlPath(url) ==
    IF url = <<>> \/ Head(url) \in {"?", "#"} THEN <<>>
    ELSE <<Head(url)>> \o UrlPath(Tail(url))

\* the URL's path ends in .mp3 or .wav and nothing follows the path
PathAudioExtension(url) ==
    /\ UrlPath(url) = url
    /\ EndsWith(url, S_mp3) \/ EndsWith(url, S_wav)

\* the call ended with the error of the extension check
RejectedByValidation ==
    /\ Raised
    /\ last.outcome.msg.prefix = "URL: "
    /\ last.outcome.msg.suffix = " is not a valid audio file"

\* C1: every download_from_url call that gets a 200 returns the fixed path
\* <tmp>/downloaded_file and leaves there exactly the response body, whatever the
\* file held before; every other call leaves that file as it was, so the file
\* always holds the body of the most recent successful call.
C1_OverwriteSemantics ==
    /\ (IsDownload /\ Returned) =>
          /\ last.outcome.value = TempDir \o <<"/">> \o DownloadedName
          /\ last.outcome.value \in DOMAIN fs
          /\ fs[last.outcome.value] = last.args.body
    /\ ~(IsDownload /\ Returned) => Untouched(TempDir \o <<"/">> \o DownloadedName)

\* a 200 whose body is shorter than what the file held has been served
C1_Witness ==
    /\ IsDownload /\ Returned
    /\ DownloadedFile \in DOMAIN before
    /\ Len(last.args.body) > 0
    /\ Len(last.args.body) < Len(before[DownloadedFile])
    /\ last.args.body # SubSeq(before[DownloadedFile], 1, Len(last.args.body))

\* C2: a URL that fails the audio-extension check is refused with the validation
\* error before any network call: no GET is issued and no file is created or
\* modified.
C2_RejectedBeforeNetwork ==
    (IsDownload /\ ~LiteralAudioSuffix(last.args.url)) =>
        /\ RejectedByValidation
        /\ last.outcome.msg.url = last.args.url
        /\ last.gets = <<>>
        /\ FsUntouched

\* a refused URL, with an earlier download still in place
C2_Witness ==
    /\ IsDownload /\ ~LiteralAudioSuffix(last.args.url)
    /\ last.gets = <<>>
    /\ DownloadedFile \in DOMAIN fs
    /\ Len(fs[DownloadedFile]) > 0

\* C3 as stated: validation passes exactly when the URL's path ends in .mp3 or
\* .wav: a URL whose path has another extension is refused even if its query
\* string or fragment ends in .mp3 or .wav, and a.wav?x=1 and y.MP3 are refused.
C3_Original ==
    IsDownload => (~RejectedByValidation <=> PathAudioExtension(last.args.url))

\* C3 amended: validation passes exactly when the whole URL string ends in .mp3
\* or .wav, case-sensitively: a.wav?x=1 and y.MP3 are refused, and a URL whose
\* path has another extension passes when its query string or fragment ends in
\* .mp3 or .wav.
C3_LiteralSuffixDecides ==
    IsDownload =>
        /\ ~RejectedByValidation <=> LiteralAudioSuffix(last.args.url)
        /\ last.args.url \in {UrlBase \o S_wav \o UrlQuery, UrlBase \o S_MP3}
              => RejectedByValidation
        /\ last.args.url \in {UrlBase \o S_txt \o UrlQueryMp3,
                              UrlBase \o S_txt \o UrlFragmentWav}
              => ~RejectedByValidation

\* y.txt?f=.mp3 passed validation and was fetched
C3_Witness ==
    /\ IsDownload
    /\ last.args.url = UrlBase \o S_txt \o UrlQueryMp3
    /\ last.gets = <<last.args.url>>
    /\ Returned

\* a validated URL was fetched and the status was not 200
FetchedNot200 ==
    /\ IsDownload
    /\ last.gets # <<>>
    /\ last.args.status # 200

\* C4 as stated: a status other than 200 raises FetchError, an error kind
\* distinct from ValidationError, whose message includes the URL; no path is
\* returned and the file is left as it was.
C4_Original ==
    FetchedNot200 =>
        /\ Raised
        /\ last.outcome.class # ValidationFailure(last.args.url).class
        /\ last.outcome.msg.url = last.args.url
        /\ FsUntouched

\* C4 amended: a status other than 200 (other 2xx included) raises ValueError,
\* the same exception class as the validation error, told apart only by its
\* message "Failed to download file from URL: <url>"; no path is returned and
\* the file is left as it was.
C4_FetchFailure ==
    FetchedNot200 =>
        /\ Raised
        /\ last.outcome.class = "ValueError"
        /\ last.outcome.class = ValidationFailure(last.args.url).class
        /\ last.outcome.msg # ValidationFailure(last.args.url).msg
        /\ last.outcome.msg.prefix = "Failed to download file from URL: "
        /\ last.outcome.msg.url = last.args.url
        /\ FsUntouched

\* a 204 was answered for a valid URL while an earlier download was in place
C4_Witness ==
    /\ FetchedNot200
    /\ last.args.status = 204
    /\ Raised
    /\ DownloadedFile \in DOMAIN fs
    /\ Len(fs[DownloadedFile]) > 0

\* C9: no tool keeps state between calls except the content of the files: the
\* analysis tools and the prompt leave every file unchanged, get_duration
\* answers the length of the file as it is, download_from_url writes no path
\* but <tmp>/downloaded_file, and download_from_youtube writes no path but
\* <tmp>/<video_id>.mp4 and never touches <tmp>/downloaded_file.
C9_FrameEffects ==
    /\ last.op \in {"get_tempo", "get_beats", "get_chroma", "get_duration",
                    "analyze_audio", "none"} => FsUntouched
    /\ (last.op = "get_duration" /\ Returned) =>
          last.outcome.value = Len(fs[last.args.path]) * SamplesPerByte
    /\ IsDownload =>
          \A p \in (DOMAIN fs \cup DOMAIN before) \ {DownloadedFile} : Untouched(p)
    /\ last.op = "download_from_youtube" =>
          /\ Untouched(DownloadedFile)
          /\ \A p \in DOMAIN fs \cup DOMAIN before :
                ~Untouched(p) =>
                    p = TempDir \o <<"/">> \o VideoId(last.args.url) \o S_mp4

\* a video was saved while a download of download_from_url was in place
C9_Witness ==
    /\ last.op = "download_from_youtube"
    /\ Returned
    /\ ~Untouched(last.outcome.value)
    /\ DownloadedFile \in DOMAIN fs
    /\ Len(fs[DownloadedFile]) > 0

----------------------------------------------------------------------------
(* Properties of the analysis tools, checked under SpecAnalysis *)

\* the twelve pitch-class labels, in their fixed order
PitchClasses == <<"C", "C#", "D", "D#", "E", "F", "F#", "G", "G#", "A", "A#", "B">>

ChromaReturned == last.op = "get_chroma" /\ Returned

\* the length of the segment the last call loaded
SegmentSamples ==
    LET total == Len(fs[last.args.path]) * SamplesPerByte
        rest  == total - last.args.offset
    IN  IF last.args.duration = None THEN rest
        ELSE IF rest < last.args.duration THEN rest ELSE last.args.duration

\* the times of the analysis frames of the segment: HopLength apart, from 0
FrameTimes == {k * HopLength : k \in 0 .. SegmentSamples \div HopLength}

\* the frame times that satisfy the filter of C6, for an interval > 0:
\* t >= offset and t modulo interval less than 1e-2 s, where t and interval
\* are the floats the program has and the remainder is theirs
KeptTimes ==
    {t \in FrameTimes :
        /\ t >= last.args.offset
        /\ 100 * PyMod(t, last.args.interval) < SampleRate}

\* C6: for interval > 0, get_chroma returns exactly one sample for every pair of
\* a pitch class and a frame time t with t >= offset and t modulo interval
\* within 1e-2 of zero, and nothing else: 12 times the number of such frames,
\* every note one of the twelve labels, every time >= offset.
C6_ChromaSamples ==
    (ChromaReturned /\ last.args.interval > 0) =>
        LET out == last.outcome.value
        IN  /\ Len(out) = 12 * Cardinality(KeptTimes)
            /\ \A j \in 1..Len(out) :
                  /\ \E i \in 1..12 : out[j].note = PitchClasses[i]
                  /\ out[j].time \in KeptTimes
                  /\ out[j].time >= last.args.offset
            /\ \A i \in 1..12 : \A t \in KeptTimes :
                  Cardinality({j \in 1..Len(out) :
                      out[j].note = PitchClasses[i] /\ out[j].time = t}) = 1

\* of four frames with an interval of 1000 ticks, t = 0 and t = 1024 pass (1024
\* is 24 ticks past the interval, inside the tolerance) and t = 512 and
\* t = 1536 do not
C6_Witness ==
    /\ ChromaReturned
    /\ last.args.offset = 0
    /\ last.args.interval = 1000
    /\ Cardinality(FrameTimes) = 4
    /\ KeptTimes = {0, 2 * HopLength}
    /\ Len(last.outcome.value) = 24

\* with an interval of one hop, frame 3 is not returned: its float time is
\* below three times the float interval, so the remainder of the two floats is
\* just under the interval, outside the tolerance
C6_FrameOnIntervalDropped ==
    /\ ChromaReturned
    /\ last.args.offset = 0
    /\ last.args.interval = HopLength
    /\ Cardinality(FrameTimes) = 4
    /\ KeptTimes = {0, HopLength, 2 * HopLength}
    /\ Len(last.outcome.value) = 36

\* C7: the get_chroma output goes pitch class by pitch class in the fixed order
\* C, C#, ..., B, each with the same strictly ascending sequence of times, so it
\* is not sorted by time as soon as two frames pass the filter.
C7_ChromaOrder ==
    ChromaReturned =>
        LET out == last.outcome.value
            m   == Len(out) \div 12
        IN  /\ Len(out) = 12 * m
            /\ \A j \in 1..Len(out) :
                  /\ out[j].note = PitchClasses[(j - 1) \div m + 1]
                  /\ out[j].time = out[((j - 1) % m) + 1].time
                  /\ ((j - 1) % m) # 0 => out[j - 1].time < out[j].time
            /\ m >= 2 => \E j \in 1..(Len(out) - 1) : out[j].time > out[j + 1].time

\* three frames passed the filter
C7_Witness ==
    /\ ChromaReturned
    /\ Len(last.outcome.value) = 36
    /\ last.outcome.value[3].time > last.outcome.value[4].time

\* C8: with offset and duration inside the file, get_beats returns times that
\* never decrease, are never negative and never exceed offset + duration (they
\* count from the start of the loaded segment).
C8_BeatTimes ==
    (/\ last.op = "get_beats"
     /\ Returned
     /\ last.args.duration # None
     /\ last.args.offset + last.args.duration
            <= Len(fs[last.args.path]) * SamplesPerByte) =>
        LET times == last.outcome.value
        IN  /\ \A j \in 1..Len(times) :
                  /\ times[j] >= 0
                  /\ times[j] <= last.args.offset + last.args.duration
            /\ \A j \in 1..(Len(times) - 1) : times[j] <= times[j + 1]

\* two beats in a segment of 1100 samples, the later one at frame 2
C8_Witness ==
    /\ last.op = "get_beats"
    /\ Returned
    /\ last.args.duration = 1100
    /\ last.args.offset + 1100 <= Len(fs[last.args.path]) * SamplesPerByte
    /\ Len(last.outcome.value) = 2
    /\ last.outcome.value[2] = 2 * HopLength

\* the frame at t = 0 is returned for each of the twelve pitch classes
FirstFrameKept ==
    \A i \in 1..12 : \E j \in 1..Len(last.outcome.value) :
        /\ last.outcome.value[j].note = PitchClasses[i]
        /\ last.outcome.value[j].time = 0

\* what C10 says for every interval
SegmentRelativeTimes ==
    /\ \A j \in 1..Len(last.outcome.value) :
          /\ last.outcome.value[j].time >= last.args.offset
          /\ last.outcome.value[j].time <= SegmentSamples
    /\ (last.args.duration # None /\ last.args.duration < last.args.offset)
          => last.outcome.value = <<>>

\* C10 as stated: frame times count from the start of the loaded segment and
\* are compared with the absolute offset, so frames before offset are dropped,
\* duration < offset gives an empty list, and with offset = 0 the frame at t = 0
\* is always included for each pitch class.
C10_Original ==
    ChromaReturned =>
        /\ SegmentRelativeTimes
        /\ last.args.offset = 0 => FirstFrameKept

\* C10 amended: as stated, but with offset = 0 the frame at t = 0 is included
\* for each pitch class only when interval is not 0; with interval = 0 the
\* modulo is NaN and nothing is returned.
C10_SegmentRelativeOffset ==
    ChromaReturned =>
        /\ SegmentRelativeTimes
        /\ (last.args.offset = 0 /\ last.args.interval # 0) => FirstFrameKept
        /\ last.args.interval = 0 => last.outcome.value = <<>>

\* duration < offset: the one frame of the segment, at t = 0, is dropped although
\* it is on the interval
C10_Witness ==
    /\ ChromaReturned
    /\ last.args.duration # None
    /\ last.args.duration < last.args.offset
    /\ last.args.interval = HopLength
    /\ last.outcome.value = <<>>

----------------------------------------------------------------------------
(* Properties of concurrent downloads, checked under SpecConc *)

\* what <tmp>/downloaded_file holds, nothing if it does not exist
Downloaded == IF DownloadedFile \in DOMAIN fs THEN fs[DownloadedFile] ELSE <<>>

\* C5 as stated, for invocations that each write at least one byte: once all
\* concurrent invocations have completed, the file holds exactly the body of the
\* invocation that wrote last.
C5_Original ==
    (AllDone /\ \A p \in Procs : Len(procs[p].body) > 0)
        => Downloaded = procs[lastWriter].body

\* C5 amended: once all invocations have completed, every one has returned the
\* same path, and the file holds exactly the body of the invocation that opened
\* (truncated) it last if no other invocation wrote after that truncation;
\* otherwise it may be a mixture: it is no longer than the longest body, and each
\* of its bytes is a zero fill or the byte some invocation's body has at that
\* position (a shorter later write leaves the tail of a longer earlier one).
C5_LastWriterWins ==
    AllDone =>
        /\ \A p \in Procs : procs[p].ret = TempDir \o <<"/">> \o DownloadedName
        /\ ~foreign => Downloaded = procs[lastOpener].body
        /\ lastWriter # 0
        /\ \E p \in Procs : Len(Downloaded) <= Len(procs[p].body)
        /\ \A i \in 1..Len(Downloaded) :
              \/ Downloaded[i] = 0
              \/ \E p \in Procs :
                    /\ i <= Len(procs[p].body)
                    /\ Downloaded[i] = procs[p].body[i]

\* all invocations are done, the one that opened last was not disturbed, and
\* another one returned a path that holds none of its own body
C5_Witness ==
    /\ AllDone
    /\ ~foreign
    /\ DownloadedFile \in DOMAIN before
    /\ \E p \in Procs :
          /\ p # lastOpener
          /\ procs[p].ret = DownloadedFile
          /\ Len(procs[p].body) = MaxBody
          /\ Len(procs[lastOpener].body) = 1
          /\ Downloaded = procs[lastOpener].body

\* a reader of the path one invocation has returned sees the other invocation's
\* body half written
C5_PartialFileObserved ==
    \E p, q \in Procs :
        /\ procs[p].pc = "done"
        /\ procs[q].pc = "open"
        /\ procs[q].pos > 0
        /\ procs[q].pos < Len(procs[q].body)
        /\ Downloaded = SubSeq(procs[q].body, 1, procs[q].pos)

\* all invocations are done and the file is no invocation's body
C5_MixtureLeft ==
    /\ AllDone
    /\ \A p \in Procs : Downloaded # procs[p].body

====
